---- MODULE Spec2Model ----
(***************************************************************************)
(* Model of the tools-inventory REST backend (src/index.js, second draft,  *)
(* lines 232-547; src/gemini.js; src/middleware.js).                        *)
(*                                                                         *)
(* The document store is three collections (tools, categories, tags).      *)
(* Every route handler is an async function: it runs atomically from one   *)
(* `await` to the next, so each await is one step of a request process.    *)
(* JavaScript strings are modelled as tuples of one-character strings.     *)
(***************************************************************************)
EXTENDS Integers, Sequences, FiniteSets, TLC

VARIABLES categories, tags, tools, nextId, procs, GEMINI_API_KEY, users, app

vars == <<categories, tags, tools, nextId, procs, GEMINI_API_KEY, users, app>>

(***************************************************************************)
(* Bounds of the model.                                                    *)
(***************************************************************************)
\* number of documents the handlers may insert into the tools collection
MaxInserts == 2

\* number of documents the handlers may insert into the users collection
MaxUsers == 3

\* the request slots: two requests may be in flight at the same time
Procs == {1, 2}

\* the server process: connected is db.js's db handle being set, routes the
\* route registrations of main() being done, listening app.listen having been
\* called, exited process.exit(1)
Starting == [connected |-> FALSE, routes |-> FALSE, listening |-> FALSE, exited |-> FALSE]
Started == [connected |-> TRUE, routes |-> TRUE, listening |-> TRUE, exited |-> FALSE]

(***************************************************************************)
(* JavaScript strings.                                                     *)
(***************************************************************************)
\* String.prototype.toLowerCase on one character
LowerChar(c) ==
  CASE c = "A" -> "a"
    [] c = "B" -> "b"
    [] c = "T" -> "t"
    [] c = "U" -> "u"
    [] c = "W" -> "w"
    [] OTHER -> c

\* String.prototype.toLowerCase
toLowerCase(s) == [i \in 1..Len(s) |-> LowerChar(s[i])]

\* characters matched by \s and removed by trim()
IsSpace(c) == c = " "

RECURSIVE TrimStart(_)
TrimStart(s) ==
  IF s # <<>> /\ IsSpace(Head(s)) THEN TrimStart(Tail(s)) ELSE s

RECURSIVE TrimEnd(_)
TrimEnd(s) ==
  IF s # <<>> /\ IsSpace(s[Len(s)]) THEN TrimEnd(SubSeq(s, 1, Len(s) - 1)) ELSE s

\* String.prototype.trim
trim(s) == TrimEnd(TrimStart(s))

\* String.prototype.includes
includes(s, sub) ==
  \E i \in 1..(Len(s) - Len(sub) + 1) : SubSeq(s, i, i + Len(sub) - 1) = sub

\* String.prototype.split(','): the pieces between the commas, in order
RECURSIVE split(_)
split(s) ==
  IF \A i \in 1..Len(s) : s[i] # ","
    THEN <<s>>
    ELSE LET k == CHOOSE i \in 1..Len(s) :
                    s[i] = "," /\ \A j \in 1..(i - 1) : s[j] # ","
         IN <<SubSeq(s, 1, k - 1)>> \o split(SubSeq(s, k + 1, Len(s)))

\* Array.prototype.map over a sequence
RECURSIVE MapTrim(_)
MapTrim(a) == IF a = <<>> THEN <<>> ELSE <<trim(Head(a))>> \o MapTrim(Tail(a))

\* Array.prototype.filter(Boolean) on strings: drops the empty ones
RECURSIVE FilterNonEmpty(_)
FilterNonEmpty(a) ==
  IF a = <<>> THEN <<>>
  ELSE (IF Head(a) = <<>> THEN <<>> ELSE <<Head(a)>>) \o FilterNonEmpty(Tail(a))

Range(a) == {a[i] : i \in 1..Len(a)}

(***************************************************************************)
(* Regular expressions: the part of the syntax the server's patterns and   *)
(* the modelled alphabet can produce (^ $ . * \s and escaped literals).    *)
(***************************************************************************)
\* the character class of the escape helper, /[.*+?^${}()|[\]\\]/
MetaChars == {".", "*", "+", "?", "^", "$", "{", "}", "(", ")", "|", "[", "]", "\\"}

\* plausible slip: the escape helper leaves the text as it is
escapeIdentity(s) == s

\* escape = s => s.replace(/[.*+?^${}()|[\]\\]/g, '\\$&')
RECURSIVE escape(_)
escape(s) ==
  IF s = <<>> THEN <<>>
  ELSE (IF Head(s) \in MetaChars THEN <<"\\", Head(s)>> ELSE <<Head(s)>>)
         \o escape(Tail(s))

\* '^\\s*' + escape(t) + '\\s*$'
anchoredSource(t) == <<"^", "\\", "s", "*">> \o escape(t) \o <<"\\", "s", "*", "$">>

\* one atom of a pattern source starting at position i, without its star
AtomAt(src, i) ==
  IF src[i] = "\\"
    THEN IF src[i + 1] = "s" THEN [k |-> "ws", c |-> " ", n |-> 2]
         ELSE [k |-> "lit", c |-> src[i + 1], n |-> 2]
    ELSE IF src[i] = "^" THEN [k |-> "bol", c |-> " ", n |-> 1]
    ELSE IF src[i] = "$" THEN [k |-> "eol", c |-> " ", n |-> 1]
    ELSE IF src[i] = "." THEN [k |-> "any", c |-> " ", n |-> 1]
    ELSE [k |-> "lit", c |-> src[i], n |-> 1]

\* a source the regex compiler rejects: a star with nothing to repeat, or a
\* trailing backslash
RECURSIVE SourceOk(_, _)
SourceOk(src, i) ==
  IF i > Len(src) THEN TRUE
  ELSE IF src[i] = "*" THEN FALSE
  ELSE IF src[i] = "\\" /\ i = Len(src) THEN FALSE
  ELSE LET a == AtomAt(src, i)
           j == i + a.n
       IN IF j <= Len(src) /\ src[j] = "*"
            THEN a.k \notin {"bol", "eol"} /\ SourceOk(src, j + 1)
            ELSE SourceOk(src, j)

\* the atoms of a pattern source, each with its star flag
RECURSIVE Atoms(_, _)
Atoms(src, i) ==
  IF i > Len(src) THEN <<>>
  ELSE LET a == AtomAt(src, i)
           j == i + a.n
           starred == j <= Len(src) /\ src[j] = "*"
       IN <<[k |-> a.k, c |-> a.c, star |-> starred]>>
            \o Atoms(src, IF starred THEN j + 1 ELSE j)

\* one character against one atom; ci is the 'i' flag
AtomMatches(a, ch, ci) ==
  CASE a.k = "any" -> TRUE
    [] a.k = "ws" -> IsSpace(ch)
    [] a.k = "lit" -> IF ci THEN LowerChar(a.c) = LowerChar(ch) ELSE a.c = ch
    [] OTHER -> FALSE

\* do atoms i.. match s from position j on (backtracking over stars)
RECURSIVE MatchFrom(_, _, _, _, _)
MatchFrom(at, i, s, j, ci) ==
  IF i > Len(at) THEN TRUE
  ELSE LET a == at[i] IN
    IF a.star
      THEN \/ MatchFrom(at, i + 1, s, j, ci)
           \/ /\ j <= Len(s)
              /\ AtomMatches(a, s[j], ci)
              /\ MatchFrom(at, i, s, j + 1, ci)
    ELSE IF a.k = "bol" THEN j = 1 /\ MatchFrom(at, i + 1, s, j, ci)
    ELSE IF a.k = "eol" THEN j = Len(s) + 1 /\ MatchFrom(at, i + 1, s, j, ci)
    ELSE /\ j <= Len(s)
         /\ AtomMatches(a, s[j], ci)
         /\ MatchFrom(at, i + 1, s, j + 1, ci)

\* RegExp.prototype.test / the store's $regex: a match starting anywhere
RegexTest(src, ci, s) ==
  \E j \in 1..(Len(s) + 1) : MatchFrom(Atoms(src, 1), 1, s, j, ci)

(***************************************************************************)
(* JavaScript values: request bodies, AI output and stored documents are   *)
(* records of these.                                                       *)
(***************************************************************************)
Undef == [t |-> "undef"]
Str(s) == [t |-> "str", s |-> s]
Num(n) == [t |-> "num", n |-> n]
Arr(a) == [t |-> "arr", a |-> a]
\* an embedded document {_id, name}
Obj(d) == [t |-> "obj", _id |-> d._id, name |-> d.name]
\* new Date(v)
Date(v) == [t |-> "date", of |-> v]

\* the ! operator: undefined, '' and 0 are falsy, every array is truthy
Falsy(v) ==
  \/ v.t = "undef"
  \/ v.t = "str" /\ v.s = <<>>
  \/ v.t = "num" /\ v.n = 0

IsArray(v) == v.t = "arr"

\* doc.f, undefined when the document has no such field
Field(doc, f) == IF f \in DOMAIN doc THEN doc[f] ELSE Undef

(***************************************************************************)
(* The document store.                                                     *)
(***************************************************************************)
\* a set of documents in natural (insertion) order
RECURSIVE NaturalOrder(_)
NaturalOrder(docs) ==
  IF docs = {} THEN <<>>
  ELSE LET first == CHOOSE d \in docs : \A e \in docs : d._id <= e._id
       IN <<first>> \o NaturalOrder(docs \ {first})

\* collection.find({name: {$in: names}}).toArray(); names is a sequence of values
FindNameIn(coll, names) ==
  NaturalOrder({d \in coll : Str(d.name) \in Range(names)})

\* collection.findOne({name: v}): the first such document, or none
FindOneByName(coll, v) ==
  LET hits == FindNameIn(coll, <<v>>)
  IN IF hits = <<>> THEN {} ELSE {hits[1]}

\* collection.updateOne({_id}, {$set: fields}): the fields named are replaced,
\* the others kept; no document is created
SetFields(doc, fields) ==
  [f \in DOMAIN doc \cup DOMAIN fields |->
     IF f \in DOMAIN fields THEN fields[f] ELSE doc[f]]

UpdateOne(coll, id, fields) ==
  {IF d._id = id THEN SetFields(d, fields) ELSE d : d \in coll}

\* the _id the store gives to the n-th inserted tool
InsertedId(n) == 10 + n

(***************************************************************************)
(* verifyToken (src/middleware.js): the bearer token of the request is     *)
(* absent ("none"), fails jwt.verify ("bad") or verifies ("good").         *)
(***************************************************************************)
Tokens == {"none", "bad", "good"}

\* plausible slip: the token is only looked for, not verified
verifyTokenPresent(token) == token # "none"

verifyToken(token) == token = "good"

(***************************************************************************)
(* validateTool.                                                           *)
(***************************************************************************)
\* the fields validateTool destructures and requires
RequiredFields ==
  {"name", "category", "quantity", "rack", "status", "purchaseDate", "tags"}

\* if (!name || !category || !quantity || !rack || !status || !purchaseDate || !tags)
MissingCheck(body) == \E f \in RequiredFields : Falsy(Field(body, f))

\* the error strings validateTool returns; none of them names a field
ErrMissing == "Missing fields"
ErrCategory == "Invalid category"
ErrTags == "One or more tags is invalid"

\* the document validateTool assembles (index.js 283-291)
newTool(body, categoryDoc, tagDocs) ==
  [name |-> body.name,
   category |-> Obj(categoryDoc),
   quantity |-> body.quantity,
   rack |-> body.rack,
   status |-> body.status,
   purchaseDate |-> Date(body.purchaseDate),
   tags |-> Arr([i \in 1..Len(tagDocs) |-> Obj(tagDocs[i])])]

(***************************************************************************)
(* Request processes.                                                      *)
(***************************************************************************)
Idle == [pc |-> "idle"]

\* a response that has been sent: HTTP status and JSON body; req keeps the
\* request it answers
Done(route, status, json, req) ==
  [pc |-> "done", route |-> route, status |-> status, json |-> json, req |-> req]

Respond(p, route, status, json, req) ==
  procs' = [procs EXCEPT ![p] = Done(route, status, json, req)]

NoJson == [none |-> TRUE]

\* the response has been delivered; the slot takes the next request
Finish(p) ==
  /\ procs[p].pc = "done"
  /\ procs' = [procs EXCEPT ![p] = Idle]
  /\ UNCHANGED <<categories, tags, tools, nextId, GEMINI_API_KEY, users, app>>

(***************************************************************************)
(* POST /tools and PUT /tools/:id                                          *)
(***************************************************************************)
\* the request arrives: verifyToken, then validateTool up to its first await
WriteArrives(p, route, token, id, body) ==
  /\ procs[p].pc = "idle"
  /\ IF ~verifyToken(token)
       THEN Respond(p, route, 401, NoJson, [token |-> token])
     ELSE IF MissingCheck(body)
       THEN Respond(p, route, 400, [error |-> ErrMissing], [body |-> body])
     ELSE procs' = [procs EXCEPT ![p] =
            [pc |-> "findCategory", route |-> route, token |-> token, id |-> id,
             body |-> body]]
  /\ UNCHANGED <<categories, tags, tools, nextId, GEMINI_API_KEY, users, app>>

PostTools(p, token, body) == WriteArrives(p, "POST /tools", token, 0, body)

PutTools(p, token, id, body) == WriteArrives(p, "PUT /tools/:id", token, id, body)

\* plausible slip: the category is created without being looked up first
ValidateFindCategoryInsert(p) ==
  LET me == procs[p]
      doc == [_id |-> 100 + p, name |-> me.body.category.s]
  IN /\ me.pc = "findCategory"
     /\ categories' = categories \cup {doc}
     /\ procs' = [procs EXCEPT ![p] =
          [pc |-> "findTags", route |-> me.route, token |-> me.token, id |-> me.id,
           body |-> me.body, categoryDoc |-> doc]]
     /\ UNCHANGED <<tags, tools, nextId, GEMINI_API_KEY, users, app>>

\* plausible slip: an unknown category does not stop the request
ValidateFindCategoryLax(p) ==
  LET me == procs[p]
      hit == FindOneByName(categories, me.body.category)
      doc == IF hit = {} THEN [_id |-> 0, name |-> me.body.category.s]
             ELSE CHOOSE d \in hit : TRUE
  IN /\ me.pc = "findCategory"
     /\ procs' = [procs EXCEPT ![p] =
          [pc |-> "findTags", route |-> me.route, token |-> me.token, id |-> me.id,
           body |-> me.body, categoryDoc |-> doc]]
     /\ UNCHANGED <<categories, tags, tools, nextId, GEMINI_API_KEY, users, app>>

\* const categoryDoc = await db.collection('categories').findOne({ name: category })
ValidateFindCategory(p) ==
  LET me == procs[p]
      hit == FindOneByName(categories, me.body.category)
  IN /\ me.pc = "findCategory"
     /\ IF hit = {}
          THEN Respond(p, me.route, 400, [error |-> ErrCategory], [body |-> me.body])
          ELSE procs' = [procs EXCEPT ![p] =
                 [pc |-> "findTags", route |-> me.route, token |-> me.token, id |-> me.id,
                  body |-> me.body, categoryDoc |-> CHOOSE d \in hit : TRUE]]
     /\ UNCHANGED <<categories, tags, tools, nextId, GEMINI_API_KEY, users, app>>

\* plausible slip: tag names without a document are created before the
\* lengths are compared
ValidateFindTagsCreates(p) ==
  LET me == procs[p]
      names == me.body.tags
      tagDocs == FindNameIn(tags, names.a)
      unknown == {n \in Range(names.a) : n.s \notin {d.name : d \in tags}}
  IN /\ me.pc = "findTags"
     /\ tags' = tags \cup {[_id |-> 200, name |-> n.s] : n \in unknown}
     /\ IF Len(tagDocs) # Len(names.a)
          THEN Respond(p, me.route, 400, [error |-> ErrTags], [body |-> me.body])
          ELSE procs' = [procs EXCEPT ![p] =
                 [pc |-> "write", route |-> me.route, token |-> me.token, id |-> me.id,
                  body |-> me.body,
                  newTool |-> newTool(me.body, me.categoryDoc, tagDocs)]]
     /\ UNCHANGED <<categories, tools, nextId, GEMINI_API_KEY, users, app>>

\* const tagDocs = await db.collection('tags').find({ name: { $in: tags } }).toArray()
\* ($in with a value that is no array is a store error: the handler's catch)
ValidateFindTags(p) ==
  LET me == procs[p]
      names == me.body.tags
      tagDocs == FindNameIn(tags, names.a)
  IN /\ me.pc = "findTags"
     /\ IF ~IsArray(names)
          THEN Respond(p, me.route, 500, [error |-> "Failed"], [body |-> me.body])
        ELSE IF Len(tagDocs) # Len(names.a)
          THEN Respond(p, me.route, 400, [error |-> ErrTags], [body |-> me.body])
        ELSE procs' = [procs EXCEPT ![p] =
               [pc |-> "write", route |-> me.route, token |-> me.token, id |-> me.id, body |-> me.body,
                newTool |-> newTool(me.body, me.categoryDoc, tagDocs)]]
     /\ UNCHANGED <<categories, tags, tools, nextId, GEMINI_API_KEY, users, app>>

\* await db.collection('tools').insertOne(status.newTool)
InsertTool(p) ==
  LET me == procs[p]
      id == InsertedId(nextId)
      doc == SetFields([_id |-> id, via |-> me.route], me.newTool)
  IN /\ me.pc = "write"
     /\ me.route = "POST /tools"
     /\ nextId <= MaxInserts
     /\ tools' = tools \cup {doc}
     /\ nextId' = nextId + 1
     /\ Respond(p, me.route, 201, [message |-> "Tool created", toolId |-> id],
                [body |-> me.body])
     /\ UNCHANGED <<categories, tags, GEMINI_API_KEY, users, app>>

\* ids a client may put in the path: 0 stands for a string that is no ObjectId
MalformedId == 0

\* await db.collection('tools').updateOne({ _id: new ObjectId(toolId) }, { $set: status.newTool })
UpdateTool(p) ==
  LET me == procs[p]
  IN /\ me.pc = "write"
     /\ me.route = "PUT /tools/:id"
     /\ IF me.id = MalformedId
          THEN /\ Respond(p, me.route, 500, [error |-> "Failed to update tool"],
                          [body |-> me.body, id |-> me.id])
               /\ UNCHANGED tools
          ELSE /\ tools' = UpdateOne(tools, me.id,
                             SetFields([via |-> me.route], me.newTool))
               /\ Respond(p, me.route, 200, [message |-> "Tool updated successfully"],
                          [body |-> me.body, id |-> me.id])
     /\ UNCHANGED <<categories, tags, nextId, GEMINI_API_KEY, users, app>>

\* DELETE /tools/:id
DeleteTool(p, token, id) ==
  LET route == "DELETE /tools/:id"
      hit == {d \in tools : d._id = id}
  IN /\ procs[p].pc = "idle"
     /\ IF ~verifyToken(token)
          THEN Respond(p, route, 401, NoJson, [token |-> token]) /\ UNCHANGED tools
        ELSE IF id = MalformedId
          THEN /\ Respond(p, route, 500, [error |-> "Internal Server Error"], [id |-> id, token |-> token])
               /\ UNCHANGED tools
        ELSE IF hit = {}
          THEN /\ Respond(p, route, 404, [error |-> "Not found"], [id |-> id, token |-> token])
               /\ UNCHANGED tools
        ELSE /\ tools' = tools \ hit
             /\ Respond(p, route, 200, [message |-> "Deleted successfully"], [id |-> id, token |-> token])
     /\ UNCHANGED <<categories, tags, nextId, GEMINI_API_KEY, users, app>>

(***************************************************************************)
(* Filters (the criteria object handed to find).                           *)
(***************************************************************************)
\* the things a field can be compared with: a string, or a pattern
Eq(s) == [k |-> "eq", s |-> s]
Re(src, ci) == [k |-> "re", src |-> src, ci |-> ci]

MatcherTest(m, s) == IF m.k = "eq" THEN m.s = s ELSE RegexTest(m.src, m.ci, s)

\* one clause {path: {$in: [...]}} or {path: {$regex: ...}}
Clause(path, any) == [path |-> path, any |-> any]

\* the strings the store finds at a path of a document: the field itself, or
\* the elements of an array field; for 'f.name' the names of the embedded
\* documents. A string is not an embedded document and has no name.
StringsOf(v) ==
  IF v.t = "str" THEN {v.s}
  ELSE IF v.t = "arr" THEN {v.a[i].s : i \in {j \in 1..Len(v.a) : v.a[j].t = "str"}}
  ELSE {}

NamesOf(v) ==
  IF v.t = "obj" THEN {v.name}
  ELSE IF v.t = "arr" THEN {v.a[i].name : i \in {j \in 1..Len(v.a) : v.a[j].t = "obj"}}
  ELSE {}

ValuesAt(doc, path) ==
  CASE path = "tags.name" -> NamesOf(Field(doc, "tags"))
    [] path = "category.name" -> NamesOf(Field(doc, "category"))
    [] OTHER -> StringsOf(Field(doc, path))

ClauseHolds(doc, c) == \E v \in ValuesAt(doc, c.path) : \E m \in c.any : MatcherTest(m, v)

\* criteria: every clause of `and` holds and, when there is an $or, one of its clauses
NoCriteria == [and |-> {}, or |-> {}, hasOr |-> FALSE]

Matches(doc, criteria) ==
  /\ \A c \in criteria.and : ClauseHolds(doc, c)
  /\ criteria.hasOr => \E c \in criteria.or : ClauseHolds(doc, c)

\* a pattern in the criteria that the store cannot compile
CriteriaOk(criteria) ==
  \A c \in criteria.and \cup criteria.or :
    \A m \in c.any : m.k = "re" => SourceOk(m.src, 1)

\* .project(fields): _id and the fields named; {} keeps the whole document
Project(doc, fields) ==
  LET keep == IF fields = {} THEN DOMAIN doc \ {"via"}
              ELSE DOMAIN doc \cap (fields \cup {"_id"})
  IN [f \in keep |-> doc[f]]

\* db.collection('tools').find(criteria).project(fields).toArray()
Find(coll, criteria, fields) ==
  LET hits == NaturalOrder({d \in coll : Matches(d, criteria)})
  IN [i \in 1..Len(hits) |-> Project(hits[i], fields)]

(***************************************************************************)
(* GET /tools                                                              *)
(***************************************************************************)
\* the strings of a comma-separated parameter: split(',').map(s => s.trim())
ListParam(v) == Range(MapTrim(split(v.s)))

\* { $in: v.split(',').map(s => s.trim()) }
InClause(path, v) == Clause(path, {Eq(x) : x \in ListParam(v)})

\* tags.split(',').map(t => t.trim()).filter(Boolean)
TagList(v) == Range(FilterNonEmpty(MapTrim(split(v.s))))

\* plausible slip: the tag patterns are tried on bare string tags only
ToolsCriteriaStringTags(query) ==
  [and |->
     (IF Falsy(query.name) THEN {} ELSE {Clause("name", {Re(query.name.s, TRUE)})})
     \cup (IF Falsy(query.category) THEN {} ELSE {InClause("category", query.category)})
     \cup (IF Falsy(query.rack) THEN {} ELSE {InClause("rack", query.rack)})
     \cup (IF Falsy(query.status) THEN {} ELSE {InClause("status", query.status)}),
   or |->
     IF Falsy(query.tags) THEN {}
     ELSE LET regexList == {Re(anchoredSource(t), TRUE) : t \in TagList(query.tags)}
          IN {Clause("tags", regexList)},
   hasOr |-> ~Falsy(query.tags) /\ TagList(query.tags) # {}]

\* the criteria of GET /tools (index.js 343-361)
ToolsCriteria(query) ==
  [and |->
     (IF Falsy(query.name) THEN {} ELSE {Clause("name", {Re(query.name.s, TRUE)})})
     \cup (IF Falsy(query.category) THEN {} ELSE {InClause("category", query.category)})
     \cup (IF Falsy(query.rack) THEN {} ELSE {InClause("rack", query.rack)})
     \cup (IF Falsy(query.status) THEN {} ELSE {InClause("status", query.status)}),
   or |->
     IF Falsy(query.tags) THEN {}
     ELSE LET regexList == {Re(anchoredSource(t), TRUE) : t \in TagList(query.tags)}
          IN {Clause("tags", regexList), Clause("tags.name", regexList)},
   hasOr |-> ~Falsy(query.tags) /\ TagList(query.tags) # {}]

ToolsProjection ==
  {"name", "category", "quantity", "rack", "status", "purchaseDate", "tags"}

\* the handler has one await, the find: it is one step
GetTools(p, query) ==
  LET route == "GET /tools"
      criteria == ToolsCriteria(query)
  IN /\ procs[p].pc = "idle"
     /\ IF ~CriteriaOk(criteria)
          THEN Respond(p, route, 500, [error |-> "Failed to fetch tools"],
                       [query |-> query])
          ELSE Respond(p, route, 200, [tools |-> Find(tools, criteria, ToolsProjection)],
                       [query |-> query])
     /\ UNCHANGED <<categories, tags, tools, nextId, GEMINI_API_KEY, users, app>>

(***************************************************************************)
(* src/gemini.js: the AI answers with any JSON text (parsed), with no text *)
(* or with text that is no JSON; the call itself may fail.                 *)
(***************************************************************************)
ArrayOrEmpty(v) == IF IsArray(v) THEN v ELSE Arr(<<>>)

\* generateSearchParams, gemini.js 87-94: what is returned for a parsed answer
generateSearchParams(parsed) ==
  [toolNames |-> ArrayOrEmpty(Field(parsed, "toolNames")),
   categories |-> ArrayOrEmpty(Field(parsed, "categories")),
   locations |-> ArrayOrEmpty(Field(parsed, "locations")),
   statuses |-> ArrayOrEmpty(Field(parsed, "statuses")),
   requestedParameters |-> ArrayOrEmpty(Field(parsed, "requestedParameters"))]

\* x && x.length
NonEmptyList(v) == v.t = "arr" /\ Len(v.a) > 0

Strings(v) == {v.a[i].s : i \in 1..Len(v.a)}

(***************************************************************************)
(* GET /ai/tools                                                           *)
(***************************************************************************)
AiSearchRoute == "GET /ai/tools"

SoftFail == [tools |-> <<>>, message |-> "Request could not be fulfilled"]

\* plausible slip: a listed name is searched for anywhere in the tool name
NameClauseSubstring(names) == Clause("name", {Re(escape(t), TRUE) : t \in names})

\* criteria.name = { $in: toolNames.map(t => new RegExp('^\\s*' + escape(t) + '\\s*$', 'i')) }
NameClause(names) == Clause("name", {Re(anchoredSource(t), TRUE) : t \in names})

\* plausible slip: a clause is added for a list that is empty ({$in: []}
\* matches no document)
BroadClausesNoLengthCheck(searchParams) ==
  {Clause("category", {Eq(x) : x \in Strings(searchParams.categories)}),
   Clause("status", {Eq(x) : x \in Strings(searchParams.statuses)})}

\* branch 3 (index.js 461-463): the lists the handler reads are categories,
\* racks and statuses
BroadClauses(searchParams) ==
  (IF NonEmptyList(Field(searchParams, "categories"))
     THEN {Clause("category", {Eq(x) : x \in Strings(searchParams.categories)})} ELSE {})
  \cup (IF NonEmptyList(Field(searchParams, "racks"))
     THEN {Clause("rack", {Eq(x) : x \in Strings(searchParams.racks)})} ELSE {})
  \cup (IF NonEmptyList(Field(searchParams, "statuses"))
     THEN {Clause("status", {Eq(x) : x \in Strings(searchParams.statuses)})} ELSE {})

\* the strings the projection loop compares a requested parameter with
ParamModel == <<"m", "o", "d", "e", "l">>
ParamBrand == <<"b", "r", "a", "n", "d">>

\* the projection built from requestedParameters (index.js 467-482)
AiProjection(searchParams) ==
  IF ~NonEmptyList(searchParams.requestedParameters) THEN {}
  ELSE {"name"} \cup
       UNION {LET param == toLowerCase(x)
              IN IF param = ParamModel THEN {"model"}
                 ELSE IF param = ParamBrand THEN {"brand"}
                 ELSE {"specifications"} : x \in Strings(searchParams.requestedParameters)}

\* the request arrives: the configuration check (index.js 424-426)
AiSearchArrives(p, q) ==
  /\ procs[p].pc = "idle"
  /\ IF ~GEMINI_API_KEY
       THEN Respond(p, AiSearchRoute, 503, [error |-> "AI service not configured"],
                    [query |-> q])
       ELSE procs' = [procs EXCEPT ![p] =
              [pc |-> "generateSearchParams", route |-> AiSearchRoute, query |-> q]]
  /\ UNCHANGED <<categories, tags, tools, nextId, GEMINI_API_KEY, users, app>>

\* generateSearchParams throws: the call failed, the answer has no text or the
\* text is no JSON. The handler's catch answers 500.
AiSearchFails(p) ==
  LET me == procs[p]
  IN /\ me.pc = "generateSearchParams"
     /\ Respond(p, AiSearchRoute, 500, [error |-> "AI search failed"],
                [query |-> me.query, ai |-> "threw"])
     /\ UNCHANGED <<categories, tags, tools, nextId, GEMINI_API_KEY, users, app>>

\* plausible slip: the three branches are not exclusive, the broad clauses
\* are added whenever their lists are non-empty
AiSearchParamsNotExclusive(p, parsed) ==
  LET me == procs[p]
      searchParams == generateSearchParams(parsed)
  IN /\ me.pc = "generateSearchParams"
     /\ IF NonEmptyList(searchParams.toolNames)
          THEN procs' = [procs EXCEPT ![p] =
                 [pc |-> "find", route |-> AiSearchRoute, query |-> me.query,
                  searchParams |-> searchParams, known |-> FALSE,
                  criteria |-> [and |-> {NameClause(Strings(searchParams.toolNames))}
                                          \cup BroadClauses(searchParams),
                                or |-> {}, hasOr |-> FALSE]]]
        ELSE IF NonEmptyList(searchParams.requestedParameters)
          THEN procs' = [procs EXCEPT ![p] =
                 [pc |-> "knownTools", route |-> AiSearchRoute, query |-> me.query,
                  searchParams |-> searchParams]]
        ELSE procs' = [procs EXCEPT ![p] =
               [pc |-> "find", route |-> AiSearchRoute, query |-> me.query,
                searchParams |-> searchParams, known |-> FALSE,
                criteria |-> [and |-> BroadClauses(searchParams),
                              or |-> {}, hasOr |-> FALSE]]]
     /\ UNCHANGED <<categories, tags, tools, nextId, GEMINI_API_KEY, users, app>>

\* generateSearchParams returns; the handler picks its branch (index.js 438-464).
\* known records whether the distinct('name') query of branch 2 was run.
AiSearchParams(p, parsed) ==
  LET me == procs[p]
      searchParams == generateSearchParams(parsed)
  IN /\ me.pc = "generateSearchParams"
     /\ IF NonEmptyList(searchParams.toolNames)
          THEN procs' = [procs EXCEPT ![p] =
                 [pc |-> "find", route |-> AiSearchRoute, query |-> me.query,
                  searchParams |-> searchParams, known |-> FALSE,
                  criteria |-> [and |-> {NameClause(Strings(searchParams.toolNames))},
                                or |-> {}, hasOr |-> FALSE]]]
        ELSE IF NonEmptyList(searchParams.requestedParameters)
          THEN procs' = [procs EXCEPT ![p] =
                 [pc |-> "knownTools", route |-> AiSearchRoute, query |-> me.query,
                  searchParams |-> searchParams]]
        ELSE procs' = [procs EXCEPT ![p] =
               [pc |-> "find", route |-> AiSearchRoute, query |-> me.query,
                searchParams |-> searchParams, known |-> FALSE,
                criteria |-> [and |-> BroadClauses(searchParams),
                              or |-> {}, hasOr |-> FALSE]]]
     /\ UNCHANGED <<categories, tags, tools, nextId, GEMINI_API_KEY, users, app>>

\* db.collection('tools').distinct('name'): the distinct string names
KnownTools(coll) == UNION {StringsOf(Field(d, "name")) : d \in coll}

\* the names find() may return: the first known name the query contains; the
\* store fixes the order of the distinct values, the model leaves it open
KeywordMatches(coll, query) ==
  {t \in KnownTools(coll) : includes(toLowerCase(query), toLowerCase(t))}

\* plausible slip: with no confident match the handler goes on unfiltered
AiKnownToolsFallThrough(p) ==
  LET me == procs[p]
      hits == KeywordMatches(tools, me.query)
  IN /\ me.pc = "knownTools"
     /\ \/ /\ \E matched \in hits :
                /\ matched # <<>>
                /\ procs' = [procs EXCEPT ![p] =
                     [pc |-> "find", route |-> AiSearchRoute, query |-> me.query,
                      searchParams |-> me.searchParams, known |-> TRUE,
                      matched |-> matched,
                      criteria |-> [and |-> {Clause("name",
                                               {Re(anchoredSource(matched), TRUE)})},
                                    or |-> {}, hasOr |-> FALSE]]]
        \/ /\ hits = {} \/ <<>> \in hits
           /\ procs' = [procs EXCEPT ![p] =
                [pc |-> "find", route |-> AiSearchRoute, query |-> me.query,
                 searchParams |-> me.searchParams, known |-> TRUE,
                 matched |-> <<>>, criteria |-> NoCriteria]]
     /\ UNCHANGED <<categories, tags, tools, nextId, GEMINI_API_KEY, users, app>>

\* branch 2 (index.js 446-458): knownTools = await distinct('name'); matched =
\* knownTools.find(...); an undefined or empty matched answers the soft fail
AiKnownTools(p) ==
  LET me == procs[p]
      hits == KeywordMatches(tools, me.query)
  IN /\ me.pc = "knownTools"
     /\ \/ /\ \E matched \in hits :
                /\ matched # <<>>
                /\ procs' = [procs EXCEPT ![p] =
                     [pc |-> "find", route |-> AiSearchRoute, query |-> me.query,
                      searchParams |-> me.searchParams, known |-> TRUE,
                      matched |-> matched,
                      criteria |-> [and |-> {Clause("name",
                                               {Re(anchoredSource(matched), TRUE)})},
                                    or |-> {}, hasOr |-> FALSE]]]
        \/ /\ hits = {} \/ <<>> \in hits
           /\ Respond(p, AiSearchRoute, 200, SoftFail,
                      [query |-> me.query, searchParams |-> me.searchParams,
                       known |-> TRUE, branch |-> "noMatch"])
     /\ UNCHANGED <<categories, tags, tools, nextId, GEMINI_API_KEY, users, app>>

\* plausible slip: the result is answered as it is, empty or not
AiSearchFindPlain(p) ==
  LET me == procs[p]
      found == Find(tools, me.criteria, AiProjection(me.searchParams))
      req == [query |-> me.query, searchParams |-> me.searchParams,
              known |-> me.known, criteria |-> me.criteria, branch |-> "find",
              matched |-> IF "matched" \in DOMAIN me THEN me.matched ELSE <<>>]
  IN /\ me.pc = "find"
     /\ Respond(p, AiSearchRoute, 200, [tools |-> found], req)
     /\ UNCHANGED <<categories, tags, tools, nextId, GEMINI_API_KEY, users, app>>

\* const tools = await find(criteria).project(projection).toArray(); an empty
\* result answers the soft fail (index.js 484-495)
AiSearchFind(p) ==
  LET me == procs[p]
      found == Find(tools, me.criteria, AiProjection(me.searchParams))
      req == [query |-> me.query, searchParams |-> me.searchParams,
              known |-> me.known, criteria |-> me.criteria, branch |-> "find",
              matched |-> IF "matched" \in DOMAIN me THEN me.matched ELSE <<>>]
  IN /\ me.pc = "find"
     /\ IF found = <<>>
          THEN Respond(p, AiSearchRoute, 200, SoftFail, req)
          ELSE Respond(p, AiSearchRoute, 200, [tools |-> found], req)
     /\ UNCHANGED <<categories, tags, tools, nextId, GEMINI_API_KEY, users, app>>

(***************************************************************************)
(* POST /ai/tools                                                          *)
(***************************************************************************)
AiCreateRoute == "POST /ai/tools"

\* plausible slip: the configuration check is missing
AiCreateArrivesUnchecked(p, token) ==
  /\ procs[p].pc = "idle"
  /\ IF ~verifyToken(token)
       THEN Respond(p, AiCreateRoute, 401, NoJson, [token |-> token])
     ELSE procs' = [procs EXCEPT ![p] = [pc |-> "generateTool", route |-> AiCreateRoute,
                                         token |-> token]]
  /\ UNCHANGED <<categories, tags, tools, nextId, GEMINI_API_KEY, users, app>>

\* the request arrives: verifyToken, then the configuration check (index.js
\* 505-507)
AiCreateArrives(p, token) ==
  /\ procs[p].pc = "idle"
  /\ IF ~verifyToken(token)
       THEN Respond(p, AiCreateRoute, 401, NoJson, [token |-> token])
     ELSE IF ~GEMINI_API_KEY
       THEN Respond(p, AiCreateRoute, 503, [error |-> "AI service not configured"],
                    [token |-> token])
     ELSE procs' = [procs EXCEPT ![p] = [pc |-> "generateTool", route |-> AiCreateRoute,
                                         token |-> token]]
  /\ UNCHANGED <<categories, tags, tools, nextId, GEMINI_API_KEY, users, app>>

\* generateTool throws
AiCreateFails(p) ==
  /\ procs[p].pc = "generateTool"
  /\ Respond(p, AiCreateRoute, 500, [error |-> "AI tool creation failed"], [ai |-> "threw"])
  /\ UNCHANGED <<categories, tags, tools, nextId, GEMINI_API_KEY, users, app>>

\* const newTool = await generateTool(...): JSON.parse of the AI's text
AiGenerateTool(p, parsed) ==
  /\ procs[p].pc = "generateTool"
  /\ procs' = [procs EXCEPT ![p] =
       [pc |-> "aiFindCategory", route |-> AiCreateRoute, token |-> procs[p].token, newTool |-> parsed,
        draft |-> parsed]]
  /\ UNCHANGED <<categories, tags, tools, nextId, GEMINI_API_KEY, users, app>>

\* categoryDoc = await findOne({ name: newTool.category }); newTool.category = categoryDoc
AiFindCategory(p) ==
  LET me == procs[p]
      hit == FindOneByName(categories, Field(me.newTool, "category"))
  IN /\ me.pc = "aiFindCategory"
     /\ IF hit = {}
          THEN Respond(p, AiCreateRoute, 404,
                       [error |-> "AI used a category that doesn't exist"],
                       [draft |-> me.draft])
          ELSE procs' = [procs EXCEPT ![p] =
                 [pc |-> "aiFindTags", route |-> AiCreateRoute, token |-> me.token, draft |-> me.draft,
                  newTool |-> SetFields(me.newTool,
                                [category |-> Obj(CHOOSE d \in hit : TRUE)])]]
     /\ UNCHANGED <<categories, tags, tools, nextId, GEMINI_API_KEY, users, app>>

\* plausible slip: the tags of the AI's answer are stored as they came
AiFindTagsKeepNames(p) ==
  LET me == procs[p]
  IN /\ me.pc = "aiFindTags"
     /\ procs' = [procs EXCEPT ![p] =
          [pc |-> "aiInsert", route |-> AiCreateRoute, token |-> me.token, draft |-> me.draft,
           newTool |-> SetFields(me.newTool,
                         [tags |-> ArrayOrEmpty(Field(me.newTool, "tags"))])]]
     /\ UNCHANGED <<categories, tags, tools, nextId, GEMINI_API_KEY, users, app>>

\* tagDocs = await find({ name: { $in: newTool.tags || [] } }); newTool.tags = tagDocs
AiFindTags(p) ==
  LET me == procs[p]
      given == Field(me.newTool, "tags")
      names == IF Falsy(given) THEN Arr(<<>>) ELSE given
      tagDocs == FindNameIn(tags, names.a)
  IN /\ me.pc = "aiFindTags"
     /\ IF ~IsArray(names)
          THEN Respond(p, AiCreateRoute, 500, [error |-> "AI tool creation failed"],
                       [draft |-> me.draft])
          ELSE procs' = [procs EXCEPT ![p] =
                 [pc |-> "aiInsert", route |-> AiCreateRoute, token |-> me.token, draft |-> me.draft,
                  newTool |-> SetFields(me.newTool,
                                [tags |-> Arr([i \in 1..Len(tagDocs) |-> Obj(tagDocs[i])])])]]
     /\ UNCHANGED <<categories, tags, tools, nextId, GEMINI_API_KEY, users, app>>

\* await db.collection('tools').insertOne(newTool)
AiInsert(p) ==
  LET me == procs[p]
      id == InsertedId(nextId)
      doc == SetFields([_id |-> id, via |-> AiCreateRoute], me.newTool)
  IN /\ me.pc = "aiInsert"
     /\ nextId <= MaxInserts
     /\ tools' = tools \cup {doc}
     /\ nextId' = nextId + 1
     /\ Respond(p, AiCreateRoute, 200, [toolId |-> id], [draft |-> me.draft])
     /\ UNCHANGED <<categories, tags, GEMINI_API_KEY, users, app>>

(***************************************************************************)
(* Start-up: main() awaits connect and registers the routes; app.listen is *)
(* called when main() has resolved (index.js 296-547, db.js 7-27).         *)
(***************************************************************************)
\* await client.connect() succeeds: db.js sets db and returns it
DbConnect ==
  /\ ~app.connected /\ ~app.exited
  /\ app' = [app EXCEPT !.connected = TRUE]
  /\ UNCHANGED <<categories, tags, tools, nextId, procs, GEMINI_API_KEY, users>>

\* client.connect() fails: connect rethrows, main() rejects, the catch of
\* main().then(...) calls process.exit(1)
DbConnectFails ==
  /\ ~app.connected /\ ~app.exited
  /\ app' = [app EXCEPT !.exited = TRUE]
  /\ UNCHANGED <<categories, tags, tools, nextId, procs, GEMINI_API_KEY, users>>

\* main() resumes with the db handle and registers every route
MainRegisters ==
  /\ app.connected /\ ~app.routes
  /\ app' = [app EXCEPT !.routes = TRUE]
  /\ UNCHANGED <<categories, tags, tools, nextId, procs, GEMINI_API_KEY, users>>

\* plausible slip (the earlier draft, index.js 225-229): app.listen is called
\* right after main() was started, not when it has resolved
ListenAtOnce ==
  /\ ~app.listening /\ ~app.exited
  /\ app' = [app EXCEPT !.listening = TRUE]
  /\ UNCHANGED <<categories, tags, tools, nextId, procs, GEMINI_API_KEY, users>>

\* main().then(() => app.listen(...))
Listen ==
  /\ app.connected /\ app.routes /\ ~app.listening /\ ~app.exited
  /\ app' = [app EXCEPT !.listening = TRUE]
  /\ UNCHANGED <<categories, tags, tools, nextId, procs, GEMINI_API_KEY, users>>

(***************************************************************************)
(* POST /users                                                             *)
(***************************************************************************)
UsersRoute == "POST /users"

ErrExists == "User already exists"

\* bcrypt.hash(password, 12): a hash the password verifies against
Hash(password) == [t |-> "hash", of |-> password]

\* a listening server takes the request; a route that is not registered is
\* answered 404 by express. The handler runs up to its first await.
UsersArrives(p, email, password) ==
  /\ procs[p].pc = "idle"
  /\ app.listening /\ ~app.exited
  /\ IF ~app.routes
       THEN Respond(p, UsersRoute, 404, NoJson, [email |-> email])
     ELSE IF Falsy(email) \/ Falsy(password)
       THEN Respond(p, UsersRoute, 400, [error |-> "Email and password required"],
                    [email |-> email])
     ELSE procs' = [procs EXCEPT ![p] =
            [pc |-> "findUser", route |-> UsersRoute, email |-> email,
             password |-> password]]
  /\ UNCHANGED <<categories, tags, tools, nextId, GEMINI_API_KEY, users, app>>

\* const existingUser = await db.collection('users').findOne({ email })
UsersFindOne(p) ==
  LET me == procs[p]
  IN /\ me.pc = "findUser"
     /\ IF \E u \in users : u.email = me.email
          THEN Respond(p, UsersRoute, 400, [error |-> ErrExists], [email |-> me.email])
          ELSE procs' = [procs EXCEPT ![p] = [me EXCEPT !.pc = "hash"]]
     /\ UNCHANGED <<categories, tags, tools, nextId, GEMINI_API_KEY, users, app>>

\* const passwordHash = await bcrypt.hash(password, 12)
UsersHash(p) ==
  LET me == procs[p]
  IN /\ me.pc = "hash"
     /\ procs' = [procs EXCEPT ![p] =
          [pc |-> "insertUser", route |-> UsersRoute, email |-> me.email,
           passwordHash |-> Hash(me.password)]]
     /\ UNCHANGED <<categories, tags, tools, nextId, GEMINI_API_KEY, users, app>>

\* await db.collection('users').insertOne({ email, password: passwordHash }):
\* the collection has no unique index, the insert always succeeds
UsersInsert(p) ==
  LET me == procs[p]
      id == Cardinality(users) + 1
  IN /\ me.pc = "insertUser"
     /\ Cardinality(users) < MaxUsers
     /\ users' = users \cup {[_id |-> id, email |-> me.email, password |-> me.passwordHash]}
     /\ Respond(p, UsersRoute, 201,
                [message |-> "User registered successfully", userId |-> id],
                [email |-> me.email])
     /\ UNCHANGED <<categories, tags, tools, nextId, GEMINI_API_KEY, app>>

(***************************************************************************)
(* The store the server starts on, and the inputs of the requests.         *)
(***************************************************************************)
\* the categories and tags collections are seeded by the operator of the
\* store; no route of the server writes them
SeedCategories == {[_id |-> 1, name |-> <<"c">>], [_id |-> 2, name |-> <<"d">>]}
SeedTags == {[_id |-> 1, name |-> <<"t">>], [_id |-> 2, name |-> <<"u">>]}

\* one entry {name, value, unit} of a specifications array
SpecEntry(n) == [t |-> "spec", name |-> n, value |-> 1, unit |-> "kg"]

\* tool documents as other writers of the store left them: category as a
\* plain string, tags as plain strings
SeedTool(id, name, category, rack, tagNames) ==
  [_id |-> id, via |-> "seed", name |-> Str(name), category |-> Str(category),
   quantity |-> Num(1), rack |-> Str(rack), status |-> Str(<<"s">>),
   purchaseDate |-> Str(<<"1">>), model |-> Str(<<"m">>),
   specifications |-> Arr(<<SpecEntry(<<"w">>), SpecEntry(<<"v">>)>>),
   tags |-> Arr([i \in 1..Len(tagNames) |-> Str(tagNames[i])])]

Legacy1 == SeedTool(1, <<"a">>, <<"c">>, <<"r">>, <<<<"t">>>>)
Legacy2 == SeedTool(2, <<"b">>, <<"d">>, <<"r">>, <<<<" ", "U">>>>)

SeedStores == {{}, {Legacy1}, {Legacy1, Legacy2}}

\* path ids of PUT and DELETE requests
PathIds == {MalformedId, 1, InsertedId(1)}
SomeIds == {1, InsertedId(1)}

\* request bodies of POST /tools and PUT /tools/:id: every combination of
\* absent, empty and present fields
AllBodies ==
  [name : {Undef, Str(<<>>), Str(<<"a">>)},
   category : {Undef, Str(<<"c">>), Str(<<"x">>)},
   quantity : {Undef, Num(0), Num(1)},
   rack : {Undef, Str(<<"r">>)},
   status : {Undef, Str(<<"s">>)},
   purchaseDate : {Undef, Str(<<"1">>)},
   tags : {Undef, Arr(<<>>), Arr(<<Str(<<"t">>)>>),
           Arr(<<Str(<<"t">>), Str(<<"t">>)>>), Arr(<<Str(<<"t">>), Str(<<"x">>)>>)}]

\* bodies with every field present, and one with no name
FullBodies ==
  [name : {Str(<<"a">>)},
   category : {Str(<<"c">>), Str(<<"x">>)},
   quantity : {Num(1)},
   rack : {Str(<<"r">>)},
   status : {Str(<<"s">>)},
   purchaseDate : {Str(<<"1">>)},
   tags : {Arr(<<Str(<<"t">>)>>), Arr(<<Str(<<"x">>)>>)}]

SomeBodies ==
  FullBodies \cup
  {[name |-> Undef, category |-> Str(<<"c">>), quantity |-> Num(1),
    rack |-> Str(<<"r">>), status |-> Str(<<"s">>), purchaseDate |-> Str(<<"1">>),
    tags |-> Arr(<<Str(<<"t">>)>>)]}

\* what generateTool may return (gemini.js 105-118): tags are optional, the
\* category and the tags need not exist
Drafts ==
  [name : {Str(<<"a">>)},
   category : {Str(<<"c">>), Str(<<"x">>)},
   brand : {Str(<<"b">>)},
   model : {Str(<<"m">>)},
   quantity : {Num(1)},
   location : {Str(<<"r">>)},
   status : {Str(<<"s">>)},
   purchaseDate : {Str(<<"1">>)},
   specifications : {Arr(<<SpecEntry(<<"w">>), SpecEntry(<<"v">>)>>)},
   tags : {Arr(<<Str(<<"t">>), Str(<<"x">>)>>)}]

\* a body and an AI answer that carry the specification list under another
\* field name than specifications
AliasBodies ==
  {SetFields([name |-> Str(<<"a">>), category |-> Str(<<"c">>), quantity |-> Num(1),
              rack |-> Str(<<"r">>), status |-> Str(<<"s">>),
              purchaseDate |-> Str(<<"1">>), tags |-> Arr(<<Str(<<"t">>)>>)], alias) :
     alias \in {[specs |-> Arr(<<SpecEntry(<<"w">>)>>)],
                [specification |-> Arr(<<SpecEntry(<<"w">>)>>)]}}

AliasDrafts ==
  {[name |-> Str(<<"a">>), category |-> Str(<<"c">>), brand |-> Str(<<"b">>),
    model |-> Str(<<"m">>), quantity |-> Num(1), location |-> Str(<<"r">>),
    status |-> Str(<<"s">>), purchaseDate |-> Str(<<"1">>),
    specs |-> Arr(<<SpecEntry(<<"w">>)>>), tags |-> Arr(<<Str(<<"t">>)>>)]}

\* query strings of GET /tools
ToolsQueries ==
  [name : {Undef, Str(<<"a">>), Str(<<"*">>)},
   category : {Undef, Str(<<"c">>), Str(<<"c", ",", " ", "d">>), Str(<<"x">>)},
   rack : {Undef, Str(<<"r">>)},
   status : {Undef, Str(<<"s">>)},
   tags : {Undef, Str(<<"t">>), Str(<<" ", "T">>), Str(<<" ", "T", ",", "u">>),
           Str(<<",">>)}]

Init ==
  /\ categories = SeedCategories
  /\ tags = SeedTags
  /\ tools \in {{}, {Legacy1}}
  /\ nextId = 1
  /\ procs = [p \in Procs |-> Idle]
  /\ GEMINI_API_KEY = TRUE
  /\ users = {}
  /\ app = Started

(***************************************************************************)
(* Spec: the write routes, requests interleaved at their awaits.           *)
(***************************************************************************)
Next ==
  \E p \in Procs :
    \/ /\ procs[p].pc = "idle"
       /\ \E token \in Tokens, body \in SomeBodies : PostTools(p, token, body)
    \/ /\ procs[p].pc = "idle"
       /\ \E token \in Tokens, id \in SomeIds, body \in SomeBodies :
            PutTools(p, token, id, body)
    \/ ValidateFindCategory(p)
    \/ ValidateFindTags(p)
    \/ InsertTool(p)
    \/ UpdateTool(p)
    \/ /\ procs[p].pc = "idle"
       /\ \E token \in Tokens, id \in SomeIds : DeleteTool(p, token, id)
    \/ /\ procs[p].pc = "idle"
       /\ \E token \in Tokens : AiCreateArrives(p, token)
    \/ AiCreateFails(p)
    \/ /\ procs[p].pc = "generateTool"
       /\ \E parsed \in Drafts : AiGenerateTool(p, parsed)
    \/ AiFindCategory(p)
    \/ AiFindTags(p)
    \/ AiInsert(p)
    \/ Finish(p)

Spec == Init /\ [][Next]_vars

(***************************************************************************)
(* SpecValidate: POST /tools and PUT /tools/:id, one request at a time,    *)
(* over every combination of absent, empty and present body fields.        *)
(***************************************************************************)
\* the slot of the specifications that take one request at a time
OneProc == {1}

InitValidate ==
  /\ categories = SeedCategories
  /\ tags = SeedTags
  /\ tools = {}
  /\ nextId = 1
  /\ procs = [p \in Procs |-> Idle]
  /\ GEMINI_API_KEY = TRUE
  /\ users = {}
  /\ app = Started

NextValidate ==
  \E p \in OneProc :
    \/ /\ procs[p].pc = "idle"
       /\ \E token \in Tokens, body \in AllBodies : PostTools(p, token, body)
    \/ /\ procs[p].pc = "idle"
       /\ \E token \in Tokens, id \in PathIds, body \in AllBodies :
            PutTools(p, token, id, body)
    \/ ValidateFindCategory(p)
    \/ ValidateFindTags(p)
    \/ InsertTool(p)
    \/ UpdateTool(p)
    \/ Finish(p)

SpecValidate == InitValidate /\ [][NextValidate]_vars

(***************************************************************************)
(* SpecQuery: the write routes and GET /tools, one request at a time, on a *)
(* store that also holds documents of other writers.                       *)
(***************************************************************************)
InitQuery ==
  /\ categories = SeedCategories
  /\ tags = SeedTags
  /\ tools \in SeedStores
  /\ nextId = 1
  /\ procs = [p \in Procs |-> Idle]
  /\ GEMINI_API_KEY = TRUE
  /\ users = {}
  /\ app = Started

NextQuery ==
  \E p \in OneProc :
    \/ /\ procs[p].pc = "idle"
       /\ \E token \in Tokens, body \in SomeBodies \cup AliasBodies : PostTools(p, token, body)
    \/ /\ procs[p].pc = "idle"
       /\ \E token \in Tokens, id \in PathIds, body \in SomeBodies \cup AliasBodies :
            PutTools(p, token, id, body)
    \/ ValidateFindCategory(p)
    \/ ValidateFindTags(p)
    \/ InsertTool(p)
    \/ UpdateTool(p)
    \/ /\ procs[p].pc = "idle"
       /\ \E token \in Tokens, id \in PathIds : DeleteTool(p, token, id)
    \/ /\ procs[p].pc = "idle"
       /\ \E token \in Tokens : AiCreateArrives(p, token)
    \/ AiCreateFails(p)
    \/ /\ procs[p].pc = "generateTool"
       /\ \E parsed \in Drafts \cup AliasDrafts : AiGenerateTool(p, parsed)
    \/ AiFindCategory(p)
    \/ AiFindTags(p)
    \/ AiInsert(p)
    \/ /\ procs[p].pc = "idle"
       /\ \E query \in ToolsQueries : GetTools(p, query)
    \/ Finish(p)

SpecQuery == InitQuery /\ [][NextQuery]_vars

(***************************************************************************)
(* SpecSearch: GET /ai/tools, one request at a time, on stores of tools    *)
(* whose names differ in case, padding and metacharacters.                 *)
(***************************************************************************)
\* number of tool documents in a store SpecSearch starts on
MaxSeedTools == 2

SearchTools ==
  {SeedTool(1, <<"a">>, <<"c">>, <<"r">>, <<<<"t">>>>),
   SeedTool(2, <<"A">>, <<"d">>, <<"r">>, <<<<"t">>>>),
   SeedTool(3, <<" ", "a", " ">>, <<"c">>, <<"q">>, <<<<"t">>>>),
   SeedTool(4, <<"a", "b">>, <<"c">>, <<"r">>, <<<<"t">>>>),
   SeedTool(5, <<".">>, <<"d">>, <<"r">>, <<<<"t">>>>),
   SeedTool(6, <<"b">>, <<"c">>, <<"q">>, <<<<"t">>>>),
   SeedTool(7, <<>>, <<"c">>, <<"r">>, <<<<"t">>>>)}

SearchStores == {st \in SUBSET SearchTools : Cardinality(st) <= MaxSeedTools}

\* the q parameter
SearchQueries == {<<>>, <<"x">>, <<"A", "b">>}

\* the JSON the AI may answer with: a field may be no array
ParsedAnswers ==
  [toolNames : {Str(<<"a">>), Arr(<<>>), Arr(<<Str(<<"a">>)>>), Arr(<<Str(<<" ", "a">>)>>),
                Arr(<<Str(<<".">>)>>), Arr(<<Str(<<"a">>), Str(<<"B">>)>>)},
   categories : {Arr(<<>>), Arr(<<Str(<<"c">>)>>)},
   locations : {Arr(<<>>), Arr(<<Str(<<"r">>)>>)},
   statuses : {Arr(<<>>), Arr(<<Str(<<"s">>)>>)},
   requestedParameters : {Undef, Arr(<<Str(<<"w">>)>>), Arr(<<Str(ParamModel)>>)}]

InitSearch ==
  /\ categories = SeedCategories
  /\ tags = SeedTags
  /\ tools \in SearchStores
  /\ nextId = 1
  /\ procs = [p \in Procs |-> Idle]
  /\ GEMINI_API_KEY \in BOOLEAN
  /\ users = {}
  /\ app = Started

NextSearch ==
  \E p \in OneProc :
    \/ /\ procs[p].pc = "idle"
       /\ \E q \in SearchQueries : AiSearchArrives(p, q)
    \/ AiSearchFails(p)
    \/ /\ procs[p].pc = "generateSearchParams"
       /\ \E parsed \in ParsedAnswers : AiSearchParams(p, parsed)
    \/ AiKnownTools(p)
    \/ AiSearchFind(p)
    \/ Finish(p)

SpecSearch == InitSearch /\ [][NextSearch]_vars

(***************************************************************************)
(* Properties of the write routes under Spec.                              *)
(***************************************************************************)
\* the tool documents the server's own routes wrote
Written == {d \in tools : d.via # "seed"}

NamesIn(coll) == {d.name : d \in coll}

\* the name a stored category or tag value refers to
RefName(v) == IF v.t = "obj" THEN v.name ELSE v.s

\* C2: every tool written through POST /tools, PUT /tools/:id or POST /ai/tools
\* carries a category whose name is the name of a category document of the
\* categories collection (the collection never shrinks, so the document was
\* there when the tool was written).
C2_CategoryExists ==
  \A d \in Written :
    /\ d.category.t \in {"obj", "str"}
    /\ RefName(d.category) \in NamesIn(categories)

C2_Witness ==
  /\ \E d \in tools : d.via = "POST /tools"
  /\ \E d \in tools : d.via = "POST /ai/tools"
  /\ \E d \in tools : d.via = "PUT /tools/:id"

\* C3: every tag carried by a tool written through those routes has the name
\* of a tag document of the tags collection.
C3_TagsExist ==
  \A d \in Written :
    /\ d.tags.t = "arr"
    /\ \A i \in 1..Len(d.tags.a) : RefName(d.tags.a[i]) \in NamesIn(tags)

C3_Witness ==
  /\ \E d \in tools : d.via = "POST /ai/tools" /\ Len(d.tags.a) > 0
  /\ \E d \in tools : d.via = "POST /tools" /\ Len(d.tags.a) > 0

\* C4: whatever the interleaving of two creation requests that name the same
\* unknown category or tag, no two documents of the categories collection and
\* no two documents of the tags collection have the same name.
C4_UniqueNames ==
  /\ \A d, e \in categories : d.name = e.name => d = e
  /\ \A d, e \in tags : d.name = e.name => d = e

\* a creation request that has been answered and that named category n
NamedCategory(r, n) ==
  /\ r.pc = "done"
  /\ \/ r.route = "POST /tools" /\ "body" \in DOMAIN r.req
        /\ r.req.body.category = Str(n)
     \/ r.route = "POST /ai/tools" /\ "draft" \in DOMAIN r.req
        /\ r.req.draft.category = Str(n)

\* a creation request that has been answered and that named tag n
NamedTag(r, n) ==
  /\ r.pc = "done"
  /\ \/ r.route = "POST /tools" /\ "body" \in DOMAIN r.req
        /\ r.req.body.tags.t = "arr" /\ Str(n) \in Range(r.req.body.tags.a)
     \/ r.route = "POST /ai/tools" /\ "draft" \in DOMAIN r.req
        /\ r.req.draft.tags.t = "arr" /\ Str(n) \in Range(r.req.draft.tags.a)

\* both slots answered creation requests naming the unknown category x, or
\* both answered creation requests naming the unknown tag x
C4_Witness ==
  /\ <<"x">> \notin NamesIn(SeedCategories) \cup NamesIn(SeedTags)
  /\ \/ NamedCategory(procs[1], <<"x">>) /\ NamedCategory(procs[2], <<"x">>)
     \/ NamedTag(procs[1], <<"x">>) /\ NamedTag(procs[2], <<"x">>)

(***************************************************************************)
(* Properties of validateTool's answers under SpecValidate.                *)
(***************************************************************************)
\* absent, as the specification of the validator counts it: undefined, the
\* empty string and the empty array
IsAbsent(v) ==
  \/ v.t = "undef"
  \/ v.t = "str" /\ v.s = <<>>
  \/ v.t = "arr" /\ v.a = <<>>

AbsentFields(body) == {f \in RequiredFields : IsAbsent(Field(body, f))}

\* an answered POST /tools or PUT /tools/:id request that passed verifyToken
Validated(r) ==
  /\ r.pc = "done"
  /\ r.route \in {"POST /tools", "PUT /tools/:id"}
  /\ "body" \in DOMAIN r.req

\* C1: a create/update request whose body lacks required fields is answered
\* with a MissingFields error that lists exactly the absent fields, and no
\* category or tag document is created.
C1_MissingFieldsListed ==
  \A p \in Procs :
    (Validated(procs[p]) /\ AbsentFields(procs[p].req.body) # {}) =>
      /\ procs[p].status = 400
      /\ procs[p].json.error = ErrMissing
      /\ "missing" \in DOMAIN procs[p].json
      /\ procs[p].json.missing = AbsentFields(procs[p].req.body)
      /\ categories = SeedCategories
      /\ tags = SeedTags

(***************************************************************************)
(* Properties of GET /tools under SpecQuery (one request at a time: the    *)
(* store is the one the answered request read).                            *)
(***************************************************************************)
\* the _ids of the documents of an answer
ReturnedIds(r) == {r.json.tools[i]._id : i \in 1..Len(r.json.tools)}

\* an answered GET /tools?category=... with no other parameter
CategoryQuery(r) ==
  /\ r.pc = "done"
  /\ r.route = "GET /tools"
  /\ r.status = 200
  /\ ~Falsy(r.req.query.category)
  /\ \A f \in {"name", "rack", "status", "tags"} : r.req.query[f] = Undef

\* C5: GET /tools?category=X,Y returns exactly the stored tools whose category
\* is X or Y, tools written by the server's own routes included.
C5_CategoryFilterExact ==
  \A p \in Procs :
    CategoryQuery(procs[p]) =>
      ReturnedIds(procs[p]) =
        {d._id : d \in {e \in tools :
                          RefName(e.category) \in ListParam(procs[p].req.query.category)}}

(***************************************************************************)
(* Properties of GET /ai/tools under SpecSearch (one request at a time on  *)
(* a store no request changes).                                            *)
(***************************************************************************)
\* an answered search for which generateSearchParams returned
Searched(r) ==
  /\ r.pc = "done"
  /\ r.route = AiSearchRoute
  /\ "searchParams" \in DOMAIN r.req

Fold(s) == toLowerCase(trim(s))

\* C6, as claimed: with a non-empty toolNames list a tool is matched if and
\* only if its name, trimmed and case-folded, equals one of the listed names
\* (case-folded).
C6_NameEqualsListed ==
  \A p \in Procs :
    (Searched(procs[p]) /\ NonEmptyList(procs[p].req.searchParams.toolNames)) =>
      ReturnedIds(procs[p]) =
        {d._id : d \in {e \in tools :
           \E t \in Strings(procs[p].req.searchParams.toolNames) :
             Fold(e.name.s) = toLowerCase(t)}}

\* C6, amended: with a non-empty toolNames list a tool is matched only if its
\* name equals a listed name once both are trimmed and case-folded, and it is
\* matched whenever its trimmed, case-folded name equals a listed name that has
\* no surrounding whitespace of its own; a name that merely contains a listed
\* name is not matched.
C6_NameMatch ==
  \A p \in Procs :
    (Searched(procs[p]) /\ NonEmptyList(procs[p].req.searchParams.toolNames)) =>
      LET names == Strings(procs[p].req.searchParams.toolNames)
      IN \A d \in tools :
           /\ d._id \in ReturnedIds(procs[p]) =>
                \E t \in names : Fold(d.name.s) = Fold(t)
           /\ (\E t \in names : trim(t) = t /\ Fold(d.name.s) = toLowerCase(t)) =>
                d._id \in ReturnedIds(procs[p])

\* toolNames ["a"] on a store holding "A" and "ab": "A" is returned, "ab" is not
C6_Witness ==
  \E p \in Procs :
    /\ Searched(procs[p])
    /\ procs[p].req.searchParams.toolNames = Arr(<<Str(<<"a">>)>>)
    /\ {d.name.s : d \in tools} = {<<"A">>, <<"a", "b">>}
    /\ ReturnedIds(procs[p]) = {2}

\* C7: with a non-empty toolNames list the criteria constrain the name field
\* only, and the distinct('name') query of the keyword inference is not run.
C7_NameOnly ==
  \A p \in Procs :
    (/\ procs[p].pc \in {"find", "done"}
     /\ procs[p].route = AiSearchRoute
     /\ "searchParams" \in DOMAIN (IF procs[p].pc = "done" THEN procs[p].req ELSE procs[p])
     /\ NonEmptyList((IF procs[p].pc = "done" THEN procs[p].req ELSE procs[p])
                       .searchParams.toolNames)) =>
      LET r == IF procs[p].pc = "done" THEN procs[p].req ELSE procs[p]
      IN /\ \A c \in r.criteria.and : c.path = "name"
         /\ ~r.criteria.hasOr
         /\ ~r.known

\* an answered search with toolNames, categories, locations, statuses and
\* requestedParameters all non-empty
C7_Witness ==
  \E p \in Procs :
    /\ Searched(procs[p])
    /\ \A f \in {"toolNames", "categories", "locations", "statuses",
                 "requestedParameters"} : NonEmptyList(procs[p].req.searchParams[f])
    /\ procs[p].json # SoftFail

\* an answered search of branch 2 whose keyword inference found a tool
Inferred(r) ==
  /\ Searched(r)
  /\ ~NonEmptyList(r.req.searchParams.toolNames)
  /\ NonEmptyList(r.req.searchParams.requestedParameters)
  /\ r.req.branch = "find"

\* C8: with toolNames empty, requestedParameters non-empty and a known tool
\* name contained in the query, only tools of that name are returned and the
\* specifications of each returned tool hold only the requested entries.
C8_SpecificationsNarrowed ==
  \A p \in Procs :
    Inferred(procs[p]) =>
      \A i \in 1..Len(procs[p].json.tools) :
        LET d == procs[p].json.tools[i]
            asked == {toLowerCase(x) :
                        x \in Strings(procs[p].req.searchParams.requestedParameters)}
        IN /\ Fold(d.name.s) = Fold(procs[p].req.matched)
           /\ "specifications" \in DOMAIN d =>
                \A k \in 1..Len(d.specifications.a) :
                  toLowerCase(d.specifications.a[k].name) \in asked

\* C9: with toolNames empty, requestedParameters non-empty and no known tool
\* name contained in the query, the answer is the soft fail (status 200, empty
\* tools, the message) whatever the store holds, and the handler never
\* reaches its find.
C9_SoftFail ==
  \A p \in Procs :
    (/\ Searched(procs[p])
     /\ ~NonEmptyList(procs[p].req.searchParams.toolNames)
     /\ NonEmptyList(procs[p].req.searchParams.requestedParameters)
     /\ KeywordMatches(tools, procs[p].req.query) = {}) =>
      /\ procs[p].status = 200
      /\ procs[p].json = SoftFail
      /\ procs[p].req.branch = "noMatch"

\* such a search on a store of two tools, with categories the AI returned
C9_Witness ==
  \E p \in Procs :
    /\ Searched(procs[p])
    /\ procs[p].req.branch = "noMatch"
    /\ KeywordMatches(tools, procs[p].req.query) = {}
    /\ Cardinality(tools) = MaxSeedTools
    /\ NonEmptyList(procs[p].req.searchParams.categories)

\* a search whose five lists are all empty
NothingAsked(r) ==
  /\ Searched(r)
  /\ \A f \in {"toolNames", "categories", "locations", "statuses",
               "requestedParameters"} : ~NonEmptyList(r.req.searchParams[f])

\* C10: with the five lists empty the criteria carry no constraint and the
\* answer holds every tool of the collection, whole.
C10_EverythingReturned ==
  \A p \in Procs :
    NothingAsked(procs[p]) =>
      /\ procs[p].req.criteria = NoCriteria
      /\ procs[p].status = 200
      /\ Range(procs[p].json.tools) = {Project(d, {}) : d \in tools}

C10_Witness ==
  \E p \in Procs :
    /\ NothingAsked(procs[p])
    /\ Cardinality(tools) = MaxSeedTools
    /\ Len(procs[p].json.tools) = MaxSeedTools

\* an answered search of branch 3: neither names nor parameters were asked
Broad(r) ==
  /\ Searched(r)
  /\ r.status = 200
  /\ ~NonEmptyList(r.req.searchParams.toolNames)
  /\ ~NonEmptyList(r.req.searchParams.requestedParameters)

\* the tool is listed in xs, or xs is empty: v is the tool's field as a string
InOrEmpty(v, xs) == NonEmptyList(xs) => v \in Strings(xs)

\* C11: with toolNames and requestedParameters empty the answer holds exactly
\* the tools whose category, location (the rack field) and status each lie in
\* the AI's list for it, where that list is non-empty.
C11_BroadFilter ==
  \A p \in Procs :
    Broad(procs[p]) =>
      ReturnedIds(procs[p]) =
        {d._id : d \in {e \in tools :
           /\ InOrEmpty(RefName(e.category), procs[p].req.searchParams.categories)
           /\ InOrEmpty(e.rack.s, procs[p].req.searchParams.locations)
           /\ InOrEmpty(e.status.s, procs[p].req.searchParams.statuses)}}

\* C12: a successful GET /ai/tools answer either holds at least one tool or is
\* the soft fail (empty tools with the message); an empty tools list without
\* the message is never answered.
C12_NeverPlainEmpty ==
  \A p \in Procs :
    (procs[p].pc = "done" /\ procs[p].route = AiSearchRoute /\ procs[p].status = 200) =>
      \/ procs[p].json = SoftFail
      \/ /\ DOMAIN procs[p].json = {"tools"}
         /\ Len(procs[p].json.tools) > 0

\* a find with criteria on a non-empty store that matched nothing
C12_Witness ==
  \E p \in Procs :
    /\ Searched(procs[p])
    /\ procs[p].req.branch = "find"
    /\ procs[p].req.criteria # NoCriteria
    /\ tools # {}
    /\ procs[p].json = SoftFail

(***************************************************************************)
(* The tags filter of GET /tools under SpecQuery.                          *)
(***************************************************************************)
\* an answered GET /tools?tags=... with no other parameter and at least one
\* non-empty term (empty terms are dropped by filter(Boolean))
TagQuery(r) ==
  /\ r.pc = "done"
  /\ r.route = "GET /tools"
  /\ r.status = 200
  /\ ~Falsy(r.req.query.tags)
  /\ TagList(r.req.query.tags) # {}
  /\ \A f \in {"name", "category", "rack", "status"} : r.req.query[f] = Undef

\* the tag names of a tool, whichever shape its tags are stored in
TagNames(d) == {RefName(d.tags.a[i]) : i \in 1..Len(d.tags.a)}

\* C13: GET /tools?tags=t1,t2 returns a tool if and only if one of its tags,
\* stored as a bare string or as a {name} sub-document, equals one of the
\* given terms after trimming and case-folding.
C13_TagFilter ==
  \A p \in Procs :
    TagQuery(procs[p]) =>
      ReturnedIds(procs[p]) =
        {d._id : d \in {e \in tools :
           \E n \in TagNames(e), t \in TagList(procs[p].req.query.tags) :
             Fold(n) = Fold(t)}}

\* a tool with the string tag t and a tool with the tag document t are both
\* returned for a term that differs from t in case and padding
C13_Witness ==
  \E p \in Procs :
    /\ TagQuery(procs[p])
    /\ <<"t">> \notin TagList(procs[p].req.query.tags)
    /\ \E d, e \in tools :
         /\ d.tags.a[1] = Str(<<"t">>)
         /\ e.tags.a[1].t = "obj" /\ e.tags.a[1].name = <<"t">>
         /\ {d._id, e._id} \subseteq ReturnedIds(procs[p])
    /\ ReturnedIds(procs[p]) # {d._id : d \in tools}

(***************************************************************************)
(* SpecPattern: the anchored pattern of a term (a tag term of GET /tools,  *)
(* a tool name of GET /ai/tools) tried on a text, for every term and text  *)
(* over an alphabet with letters of both cases, a space and metacharacters.*)
(***************************************************************************)
MaxTermLen == 2
MaxTextLen == 3

Alphabet == {"a", "A", ".", "*", "\\", " "}

RECURSIVE StringsUpTo(_)
StringsUpTo(n) ==
  IF n = 0 THEN {<<>>}
  ELSE LET shorter == StringsUpTo(n - 1)
       IN shorter \cup {Append(s, c) : s \in shorter, c \in Alphabet}

InitPattern ==
  /\ categories = SeedCategories
  /\ tags = SeedTags
  /\ tools = {}
  /\ nextId = 1
  /\ GEMINI_API_KEY = TRUE
  /\ users = {}
  /\ app = Started
  /\ \E term \in StringsUpTo(MaxTermLen), text \in StringsUpTo(MaxTextLen) :
       procs = [p \in Procs |->
                  IF p \in OneProc THEN [pc |-> "pattern", term |-> term, text |-> text]
                  ELSE Idle]

\* new RegExp('^\\s*' + escape(t) + '\\s*$', 'i') tried on a stored string;
\* a source the regex compiler rejects throws
TestPattern(p) ==
  LET me == procs[p]
      src == anchoredSource(me.term)
  IN /\ me.pc = "pattern"
     /\ procs' = [procs EXCEPT ![p] =
          [pc |-> "tested", term |-> me.term, text |-> me.text,
           threw |-> ~SourceOk(src, 1),
           matched |-> SourceOk(src, 1) /\ RegexTest(src, TRUE, me.text)]]
     /\ UNCHANGED <<categories, tags, tools, nextId, GEMINI_API_KEY, users, app>>

NextPattern == \E p \in OneProc : TestPattern(p)

SpecPattern == InitPattern /\ [][NextPattern]_vars

\* C14: the anchored pattern built from a term, metacharacters included,
\* compiles and matches only texts equal to the term up to surrounding
\* whitespace and case: no text that differs from it at a metacharacter
\* position or that only contains it.
C14_LiteralOnly ==
  \A p \in Procs :
    procs[p].pc = "tested" =>
      /\ ~procs[p].threw
      /\ procs[p].matched => Fold(procs[p].text) = Fold(procs[p].term)

\* a term with a metacharacter matched a text that differs from it in
\* padding and case
C14_Witness ==
  \E p \in Procs :
    /\ procs[p].pc = "tested"
    /\ procs[p].matched
    /\ Range(procs[p].term) \cap MetaChars # {}
    /\ procs[p].text # procs[p].term
    /\ toLowerCase(procs[p].text) # toLowerCase(procs[p].term)
    /\ trim(procs[p].text) # procs[p].text

(***************************************************************************)
(* The shape of written tools (Spec) and validateTool's verdicts           *)
(* (SpecValidate).                                                         *)
(***************************************************************************)
\* C15: every tool document written by POST /tools, PUT /tools/:id or
\* POST /ai/tools stores its category as the plain name string and its tags
\* as an array of name strings, never as sub-documents.
C15_CanonicalShape ==
  \A d \in Written :
    /\ d.category.t = "str"
    /\ d.tags.t = "arr"
    /\ \A i \in 1..Len(d.tags.a) : d.tags.a[i].t = "str"

\* the request failed with this error of validateTool
FailedWith(r, err) == "error" \in DOMAIN r.json /\ r.json.error = err

\* a tags list of names of existing tag documents in which a name repeats
RepeatsKnownTags(v) ==
  /\ v.t = "arr"
  /\ \A i \in 1..Len(v.a) : v.a[i].t = "str" /\ v.a[i].s \in NamesIn(tags)
  /\ \E i, j \in 1..Len(v.a) : i # j /\ v.a[i] = v.a[j]

\* C16: a create/update request whose tags list repeats the name of an
\* existing tag, every other field being valid, is accepted: no invalid-tag
\* error is answered.
C16_DuplicateTagsAccepted ==
  \A p \in Procs :
    (/\ Validated(procs[p])
     /\ AbsentFields(procs[p].req.body) = {}
     /\ procs[p].req.body.quantity = Num(1)
     /\ procs[p].req.body.category.s \in NamesIn(categories)
     /\ RepeatsKnownTags(procs[p].req.body.tags)) =>
      ~FailedWith(procs[p], ErrTags)

\* C17: a create/update request with quantity 0 and every other required
\* field valid is not rejected as missing a field.
C17_ZeroQuantityPresent ==
  \A p \in Procs :
    (/\ Validated(procs[p])
     /\ AbsentFields(procs[p].req.body) = {}
     /\ procs[p].req.body.quantity = Num(0)) =>
      ~FailedWith(procs[p], ErrMissing)

(***************************************************************************)
(* Specification lists given under another field name (SpecQuery).         *)
(***************************************************************************)
\* a write request that was answered with success, and its input
Stored(r) ==
  /\ r.pc = "done"
  /\ r.route \in {"POST /tools", "PUT /tools/:id", AiCreateRoute}
  /\ r.status \in {200, 201}

InputOf(r) == IF "body" \in DOMAIN r.req THEN r.req.body ELSE r.req.draft

\* the input names its specification list specs or specification, and has
\* no specifications
AliasOnly(input) ==
  /\ Field(input, "specifications") = Undef
  /\ Field(input, "specs") # Undef \/ Field(input, "specification") # Undef

AliasValue(input) ==
  IF Field(input, "specs") # Undef THEN input.specs ELSE input.specification

\* the document the answered request wrote, if the store holds it
StoredBy(r) ==
  {d \in tools : d._id = (IF "toolId" \in DOMAIN r.json THEN r.json.toolId ELSE r.req.id)}

\* C18: a tool input that gives its specification list under specs or
\* specification, and not under specifications, is persisted with a
\* specifications field equal to that list and with no specs or specification
\* field.
C18_AliasResolved ==
  \A p \in Procs :
    (Stored(procs[p]) /\ AliasOnly(InputOf(procs[p]))) =>
      \A d \in StoredBy(procs[p]) :
        /\ Field(d, "specifications") = AliasValue(InputOf(procs[p]))
        /\ Field(d, "specs") = Undef
        /\ Field(d, "specification") = Undef

(***************************************************************************)
(* SpecAi: GET /ai/tools and POST /ai/tools, one request at a time, with   *)
(* the AI configured or not.                                               *)
(***************************************************************************)
InitAi ==
  /\ categories = SeedCategories
  /\ tags = SeedTags
  /\ tools \in SeedStores
  /\ nextId = 1
  /\ procs = [p \in Procs |-> Idle]
  /\ GEMINI_API_KEY \in BOOLEAN
  /\ users = {}
  /\ app = Started

NextAi ==
  \E p \in OneProc :
    \/ /\ procs[p].pc = "idle"
       /\ \E q \in SearchQueries : AiSearchArrives(p, q)
    \/ AiSearchFails(p)
    \/ /\ procs[p].pc = "generateSearchParams"
       /\ \E parsed \in ParsedAnswers : AiSearchParams(p, parsed)
    \/ AiKnownTools(p)
    \/ AiSearchFind(p)
    \/ /\ procs[p].pc = "idle"
       /\ \E token \in Tokens : AiCreateArrives(p, token)
    \/ AiCreateFails(p)
    \/ /\ procs[p].pc = "generateTool"
       /\ \E parsed \in Drafts : AiGenerateTool(p, parsed)
    \/ AiFindCategory(p)
    \/ AiFindTags(p)
    \/ AiInsert(p)
    \/ Finish(p)

SpecAi == InitAi /\ [][NextAi]_vars

\* C19: when generateSearchParams fails (the call, a response without text,
\* unparsable JSON) GET /ai/tools goes on as with all-empty lists and answers
\* with success, not with an error.
C19_DegradesToEmpty ==
  \A p \in Procs :
    (/\ procs[p].pc = "done"
     /\ procs[p].route = AiSearchRoute
     /\ "ai" \in DOMAIN procs[p].req
     /\ procs[p].req.ai = "threw") =>
      /\ procs[p].status = 200
      /\ "tools" \in DOMAIN procs[p].json

\* the answer of an AI route when the AI is not configured: 503, or 401 for a
\* request verifyToken turned away
Unavailable(r) ==
  /\ r.pc = "done"
  /\ r.status = (IF r.route = AiCreateRoute /\ ~verifyToken(r.req.token) THEN 401 ELSE 503)

\* C20: when the AI is not configured, GET /ai/tools and POST /ai/tools answer
\* service-unavailable straight from the arrival of the request: the handler
\* is never found waiting for a store query or an AI call, and the store is
\* left unchanged.
C20_UnavailableFirst ==
  /\ [](~GEMINI_API_KEY =>
          \A p \in Procs : procs[p].pc = "idle" \/ Unavailable(procs[p]))
  /\ [][~GEMINI_API_KEY => UNCHANGED <<tools, categories, tags, nextId>>]_vars

\* POST /ai/tools with a good token answered 503 on a store that holds tools
C20_Witness ==
  \E p \in Procs :
    /\ ~GEMINI_API_KEY
    /\ procs[p].pc = "done"
    /\ procs[p].route = AiCreateRoute
    /\ procs[p].status = 503
    /\ tools # {}

(***************************************************************************)
(* SpecUsers: the server from its start, and POST /users requests          *)
(* interleaved at their awaits.                                            *)
(***************************************************************************)
Emails == {Undef, Str(<<"a">>), Str(<<"b">>)}
Passwords == {Undef, Str(<<"w">>)}

InitUsers ==
  /\ categories = SeedCategories
  /\ tags = SeedTags
  /\ tools = {}
  /\ nextId = 1
  /\ procs = [p \in Procs |-> Idle]
  /\ GEMINI_API_KEY = TRUE
  /\ users = {}
  /\ app = Starting

NextUsers ==
  \/ DbConnect
  \/ DbConnectFails
  \/ MainRegisters
  \/ Listen
  \/ \E p \in Procs :
       \/ /\ procs[p].pc = "idle"
          /\ \E email \in Emails, password \in Passwords : UsersArrives(p, email, password)
       \/ UsersFindOne(p)
       \/ UsersHash(p)
       \/ UsersInsert(p)
       \/ Finish(p)

SpecUsers == InitUsers /\ [][NextUsers]_vars

\* C21: after any interleaving of POST /users requests the users collection
\* holds at most one document per email address.
C21_OneUserPerEmail ==
  \A u, v \in users : u.email = v.email => u = v

\* C25: the server listens only once the database is connected and every
\* route is registered; after a failed connection it never listens; no
\* request is taken, or answered as an unknown route, before that.
C25_ListenAfterMain ==
  /\ [](app.listening => app.connected /\ app.routes)
  /\ [](app.exited => ~app.listening /\ ~app.connected)
  /\ [](\A p \in Procs :
          procs[p].pc # "idle" =>
            /\ app.listening /\ app.routes
            /\ procs[p].pc = "done" => procs[p].status # 404)
  /\ [][app.exited => app' = app]_vars

\* a registration answered 201 by the listening server
C25_Witness ==
  \E p \in Procs :
    /\ procs[p].pc = "done"
    /\ procs[p].route = UsersRoute
    /\ procs[p].status = 201
    /\ app = Started

(***************************************************************************)
(* The protected routes under Spec.                                        *)
(***************************************************************************)
Protected == {"POST /tools", "PUT /tools/:id", "DELETE /tools/:id", AiCreateRoute}

\* the slot's request was turned away by verifyToken
TurnedAway(r) == r.pc = "done" /\ r.route \in Protected /\ r.status = 401

\* the handler of the slot's request is running
InHandler(r) == r.pc \notin {"idle", "done"} /\ r.route \in Protected

\* C22: the tools collection is written only by a request of a protected
\* route whose bearer token verifies; a request without such a token is
\* answered 401 straight from its arrival, without a write, and its handler
\* never runs; a request whose handler runs is never answered 401.
C22_WritesNeedToken ==
  /\ [](\A p \in Procs : InHandler(procs[p]) => procs[p].token = "good")
  /\ [](\A p \in Procs : TurnedAway(procs[p]) => procs[p].req.token # "good")
  /\ [][\A p \in Procs :
          (procs'[p] # procs[p] /\ TurnedAway(procs'[p])) =>
            procs[p].pc = "idle" /\ tools' = tools]_vars
  /\ [][tools' # tools =>
          \E p \in Procs :
            /\ procs'[p] # procs[p]
            /\ procs'[p].pc = "done" /\ procs'[p].route \in Protected
            /\ IF procs[p].pc = "idle" THEN procs'[p].req.token = "good"
               ELSE procs[p].token = "good"]_vars

\* a DELETE with a token that does not verify was turned away while another
\* request's handler is about to write
C22_Witness ==
  \E p, q \in Procs :
    /\ TurnedAway(procs[p])
    /\ procs[p].route = "DELETE /tools/:id"
    /\ procs[p].req.token = "bad"
    /\ procs[q].pc = "write"
    /\ tools # {}

\* the validation errors of validateTool
ValidationErrors == {ErrMissing, ErrCategory, ErrTags}

\* the slot's POST /tools or PUT /tools/:id request failed validation
Rejected(r) ==
  /\ r.pc = "done"
  /\ r.route \in {"POST /tools", "PUT /tools/:id"}
  /\ \E err \in ValidationErrors : FailedWith(r, err)

\* the slot's request is in validateTool, or about to enter it
Validating(r) == r.pc = "idle" \/ (r.pc \in {"findCategory", "findTags"})

\* C23: a POST /tools or PUT /tools/:id request that fails validation (missing
\* field, unknown category, unknown tag) is answered 400, and none of its
\* steps, from its arrival to the answer, changes the tools, categories or
\* tags collection.
C23_RejectedChangesNothing ==
  /\ [](\A p \in Procs : Rejected(procs[p]) => procs[p].status = 400)
  /\ [][\A p \in Procs :
          (procs'[p] # procs[p] /\ Validating(procs[p])
             /\ (Validating(procs'[p]) \/ Rejected(procs'[p]))) =>
            tools' = tools /\ categories' = categories /\ tags' = tags]_vars

\* a request naming an unknown tag was rejected on a store that holds a
\* written tool
C23_Witness ==
  \E p \in Procs :
    /\ Rejected(procs[p])
    /\ FailedWith(procs[p], ErrTags)
    /\ Written # {}

\* the slot's PUT /tools/:id request is at its updateOne
Updating(r) == r.pc = "write" /\ r.route = "PUT /tools/:id"

\* the response reports the tool as updated
ReportsUpdated(r) ==
  /\ r.pc = "done"
  /\ "message" \in DOMAIN r.json
  /\ r.json.message = "Tool updated successfully"

\* C24: the update of PUT /tools/:id never changes the number of tool
\* documents nor any document other than the one whose _id is :id; when no
\* tool has that _id the collection is left as it was and the response does
\* not report the tool as updated.
C24_UpdateOnlyThatTool ==
  [][\A p \in Procs :
       (Updating(procs[p]) /\ procs'[p] # procs[p]) =>
         /\ Cardinality(tools') = Cardinality(tools)
         /\ \A d \in tools : d._id # procs[p].id => d \in tools'
         /\ (\A d \in tools : d._id # procs[p].id) =>
              /\ tools' = tools
              /\ ~ReportsUpdated(procs'[p])]_vars

====
